---- MODULE Spec2Model ----
(***************************************************************************)
(* Model of the lyricshort effect pipeline: EditorEffects.apply_effects,   *)
(* EditorEffects.effects_vid, EditorEffects.add_subtitles (src/effects.py) *)
(* and the Effect variants with their logging wrapper (src/structures.py,  *)
(* src/logger.py).                                                         *)
(*                                                                         *)
(* Times are counted in ticks of 1/TicksPerSec second, so that the float   *)
(* arithmetic of the source on cue times is exact and int() truncation is  *)
(* visible.  The external encode tool (ffmpeg) is a nondeterministic       *)
(* step: it either returns successfully or raises ffmpeg.Error.            *)
(***************************************************************************)
EXTENDS Integers, Sequences, FiniteSets, TLC

VARIABLES
    start_time,      \* EditorEffects.start_time (ticks)
    duration,        \* EditorEffects.duration (ticks)
    subtitle_exists, \* os.path.exists(self.subtitle_path)
    subtitles,       \* the cues of the subtitle file, in file order
    file,            \* content of the media file at self.file_path
    temp,            \* content of the NamedTemporaryFile of the running step
    pc,              \* position of the (single) thread of control
    caller,          \* the outermost operation that was called
    effects,         \* the effect list of the running call
    err,             \* exception that left the call, "none" if none
    log,             \* messages written to the loggers during the call
    fileBefore,      \* content of the media file when the call started
    encodes,         \* encode tool invocations started during the call
    replaces,        \* os.replace calls made during the call
    idx,             \* add_subtitles: index of the next cue of the loop
    overlay_spots,   \* add_subtitles: vertical offset -> end_time last placed
    subtitle_props,  \* add_subtitles: the emitted TextOverlayProperties
    placed,          \* add_subtitles: cue index of each emitted entry
    CURRENT_FONT,    \* FontUtils._CURRENT_FONT, "None" while unset
    fonts_dir,       \* the directory fonts/static: whether it exists, its files
    font_ret,        \* outcome of the last FontUtils call
    font_calls,      \* FontUtils calls made so far
    scans            \* find_all_fonts invocations made so far

vars == <<start_time, duration, subtitle_exists, subtitles, file, temp, pc,
          caller, effects, err, log, fileBefore, encodes, replaces, idx,
          overlay_spots, subtitle_props, placed, CURRENT_FONT, fonts_dir,
          font_ret, font_calls, scans>>

subVars == <<idx, overlay_spots, subtitle_props, placed>>

fontVars == <<CURRENT_FONT, fonts_dir, font_ret, font_calls, scans>>

pipeVars == <<start_time, duration, subtitle_exists, subtitles, file, temp,
              pc, caller, effects, err, log, fileBefore, encodes, replaces>>

----------------------------------------------------------------------------
(* Bounds and program constants *)

TicksPerSec == 2
MaxEffects == 3
MaxCues == 3
MaxTime == 3
MaxFontCalls == 3

FONT_SIZE == 35
INIT_OFFSET == 20
LINE_GAP == 5

StartTimes == {0, 1}
Durations == {0, 2}
AudioCodecs == {"aac", "opus"}

----------------------------------------------------------------------------
(* Effects *)

TrimEffect(s, e) == [kind |-> "TrimEffect", start_time |-> s, end_time |-> e]
BlurEffect == [kind |-> "BlurEffect", radius |-> 5]
FillOverlayEffect(op) ==
    [kind |-> "FillOverlayEffect", color |-> "black", opacity |-> op]
TextOverlayProperties(s, d, off) ==
    [start_time |-> s, duration |-> d, offset |-> off]
TextOverlayEffect(texts) == [kind |-> "TextOverlayEffect", texts |-> texts]

IsTrim(e) == e.kind = "TrimEffect"

\* the effects a caller may put in a list: a valid Trim, a Trim with
\* end_time = start_time, a Trim with end_time < start_time, and one of each
\* node-based effect, the fill overlay with an opacity of 0.6 and of 1.5
\* (opacity is counted in tenths)
EffectPool ==
    { TrimEffect(0, 2), TrimEffect(2, 2), TrimEffect(2, 0), BlurEffect,
      FillOverlayEffect(6), FillOverlayEffect(15),
      TextOverlayEffect(<<TextOverlayProperties(0, 3 * TicksPerSec, 0)>>) }

SeqsUpTo(S, n) == UNION { [1..k -> S] : k \in 0..n }

EffectLists == SeqsUpTo(EffectPool, MaxEffects)

----------------------------------------------------------------------------
(* Media content: the chain of filter stages the video went through, the   *)
(* audio codec, the acodec option of the pass that wrote it, and whether   *)
(* the container was written to its end.                                   *)

Content(video, audio, acodec, complete) ==
    [video |-> video, audio |-> audio, acodec |-> acodec,
     complete |-> complete]

\* a NamedTemporaryFile right after creation: an empty file
NoTemp == Content(<<>>, "none", "none", FALSE)

\* StreamUtils.get_audio_codec
get_audio_codec(f) == f.audio

\* a policy that transcodes in every pass
Acodec_always_transcode(f) == "aac"

\* acodec = "copy" if audio_codec == "aac" else "aac"
Acodec(f) == IF get_audio_codec(f) = "aac" THEN "copy" ELSE "aac"

\* ffmpeg.input(file_path, ss=..., to=...): the stage a Trim encodes
TrimStage(e) == [kind |-> "trim", ss |-> e.start_time, to |-> e.end_time]

\* one drawtext stage per entry of texts, each enabled by
\* between(t, start_time, start_time + duration)
RECURSIVE DrawText(_, _)
DrawText(node, texts) ==
    IF texts = <<>> THEN node
    ELSE DrawText(Append(node,
                         [kind |-> "drawtext",
                          from |-> Head(texts).start_time,
                          to |-> Head(texts).start_time + Head(texts).duration,
                          y |-> Head(texts).offset]),
                  Tail(texts))

\* a Trim that contributes its cut to the filter graph
video_node_fusing_trim(e, node) ==
    CASE e.kind = "TrimEffect" -> Append(node, TrimStage(e))
      [] e.kind = "BlurEffect" -> Append(node, [kind |-> "gblur", sigma |-> e.radius])
      [] e.kind = "FillOverlayEffect" ->
             Append(node, [kind |-> "overlay", color |-> e.color, aa |-> e.opacity])
      [] e.kind = "TextOverlayEffect" -> DrawText(node, e.texts)

\* Effect.video_node of each variant: the filter stages it adds to a node
video_node(e, node) ==
    CASE e.kind = "TrimEffect" -> node
      [] e.kind = "BlurEffect" -> Append(node, [kind |-> "gblur", sigma |-> e.radius])
      [] e.kind = "FillOverlayEffect" ->
             Append(node, [kind |-> "overlay", color |-> e.color, aa |-> e.opacity])
      [] e.kind = "TextOverlayEffect" -> DrawText(node, e.texts)

\* for effect in effects: video_node = effect.video_node(video_node, ...)
RECURSIVE FusedGraph(_, _)
FusedGraph(node, effs) ==
    IF effs = <<>> THEN node
    ELSE FusedGraph(video_node(Head(effs), node), Tail(effs))

\* what the encode of effect.apply(file_path) writes, given the file it reads
ApplyOutput(e, f, complete) ==
    Content(IF IsTrim(e) THEN Append(f.video, TrimStage(e))
            ELSE video_node(e, f.video),
            "aac", Acodec(f), complete)

\* what the fused encode of apply_effects writes
FusedOutput(effs, f, complete) ==
    Content(FusedGraph(f.video, effs), "aac", Acodec(f), complete)

\* cnt = sum(isinstance(effect, TrimEffect) for effect in effects)
CountTrims(effs) == Cardinality({ i \in DOMAIN effs : IsTrim(effs[i]) })

\* a check that lets two Trims through
MultipleTrims_off_by_one(effs) == CountTrims(effs) > 2

\* if cnt > 1
MultipleTrims(effs) == CountTrims(effs) > 1

\* a check that looks for the Trim at the end of the list
TrimNotFirst_last(effs) == CountTrims(effs) = 1 /\ ~IsTrim(effs[Len(effs)])

\* a check that takes the Trim at any position
TrimNotFirst_unchecked(effs) == FALSE

\* if cnt == 1: assert isinstance(effects[0], TrimEffect)
TrimNotFirst(effs) == CountTrims(effs) = 1 /\ ~IsTrim(effs[1])

----------------------------------------------------------------------------
(* Log messages *)

ApplyingEffect == "apply_effect INFO Applying effect"
ErrorApplyingEffect == "apply_effect ERROR Error applying effect"
EffectApplied == "apply_effect INFO Effect applied successfully"
UseOnlyOneTrim == "EditorEffects ERROR Use only one TrimEffect at a time"
ApplyingEffects == "EditorEffects INFO Applying effects"
ErrorApplyingEffects == "EditorEffects ERROR Error applying effects"
FfmpegStdout == "EditorEffects ERROR ffmpeg stdout"
FfmpegStderr == "EditorEffects ERROR ffmpeg stderr"
AllEffectsApplied == "EditorEffects INFO All effects applied successfully"
AppliedAllEffects == "EditorEffects INFO Applied all effects"
ErrorApplyingVid == "EditorEffects ERROR Error applying effects (effects_vid)"
SubtitleMissing == "EditorEffects ERROR Subtitle file does not exist"

InApplyEffects == caller \in {"apply_effects", "effects_vid"}

----------------------------------------------------------------------------
(* EditorEffects.apply_effects, up to the point where the encode of        *)
(* effects[0].apply is running                                             *)

EnterApplyEffects(effs, who) ==
    /\ pc = "idle"
    /\ caller' = who
    /\ effects' = effs
    /\ fileBefore' = file
    /\ UNCHANGED <<start_time, duration, subtitle_exists, subtitles, file,
                   replaces, subVars, fontVars>>
    /\ IF effs = <<>>
       THEN /\ pc' = "returned"
            /\ log' = log \o (IF who = "effects_vid"
                              THEN <<AppliedAllEffects>> ELSE <<>>)
            /\ UNCHANGED <<temp, err, encodes>>
       ELSE IF MultipleTrims(effs)
       THEN /\ pc' = "raised"
            /\ err' = "ValueError"
            /\ log' = Append(log, UseOnlyOneTrim)
            /\ UNCHANGED <<temp, encodes>>
       ELSE IF TrimNotFirst(effs)
       THEN /\ pc' = "raised"
            /\ err' = "AssertionError"
            /\ UNCHANGED <<temp, log, encodes>>
       ELSE /\ pc' = "apply_run"
            /\ log' = log \o <<ApplyingEffects, ApplyingEffect>>
            /\ temp' = ApplyOutput(effs[1], file, FALSE)
            /\ encodes' = encodes + 1
            /\ UNCHANGED err

\* a caller invokes apply_effects with a list of its choice
ApplyEffects == \E effs \in EffectLists : EnterApplyEffects(effs, "apply_effects")

\* EditorEffects.effects_vid
EffectsVid ==
    EnterApplyEffects(<<TrimEffect(start_time, start_time + duration),
                        FillOverlayEffect(6)>>, "effects_vid")

\* a caller invokes effect.apply(file_path) on one effect; file_path is the
\* non-empty path of the media file, so the wrapper's path check passes
Apply ==
    \E e \in EffectPool :
        /\ pc = "idle"
        /\ caller' = "apply"
        /\ effects' = <<e>>
        /\ fileBefore' = file
        /\ pc' = "apply_run"
        /\ log' = Append(log, ApplyingEffect)
        /\ temp' = ApplyOutput(e, file, FALSE)
        /\ encodes' = encodes + 1
        /\ UNCHANGED <<start_time, duration, subtitle_exists, subtitles, file,
                       err, replaces, subVars, fontVars>>

----------------------------------------------------------------------------
(* The encode of effect.apply, wrapped by MyLogger.log_apply *)

\* the encode tool returns successfully: the temporary output is complete
RunOk ==
    /\ pc = "apply_run"
    /\ pc' = "apply_replace"
    /\ temp' = [temp EXCEPT !.complete = TRUE]
    /\ UNCHANGED <<start_time, duration, subtitle_exists, subtitles, file,
                   caller, effects, err, log, fileBefore, encodes, replaces,
                   subVars, fontVars>>

\* a failure path that moves the unfinished output over the media file
RunFail_replacing ==
    /\ pc = "apply_run"
    /\ pc' = "raised"
    /\ err' = "ffmpeg.Error"
    /\ file' = temp
    /\ log' = log \o <<ErrorApplyingEffect>>
              \o (IF caller = "effects_vid" THEN <<ErrorApplyingVid>> ELSE <<>>)
    /\ UNCHANGED <<start_time, duration, subtitle_exists, subtitles, temp,
                   caller, effects, fileBefore, encodes, replaces, subVars,
                   fontVars>>

\* the encode tool fails: run() raises ffmpeg.Error, os.replace is skipped,
\* the wrapper logs and re-raises; apply_effects has no handler around
\* effects[0].apply, effects_vid logs and re-raises
RunFail ==
    /\ pc = "apply_run"
    /\ pc' = "raised"
    /\ err' = "ffmpeg.Error"
    /\ log' = log \o <<ErrorApplyingEffect>>
              \o (IF caller = "effects_vid" THEN <<ErrorApplyingVid>> ELSE <<>>)
    /\ UNCHANGED <<start_time, duration, subtitle_exists, subtitles, file,
                   temp, caller, effects, fileBefore, encodes, replaces,
                   subVars, fontVars>>

\* os.replace(temp_file.name, file_path), the wrapper's success message, and
\* in apply_effects the construction of the fused graph up to the point
\* where its encode is running
Replace ==
    /\ pc = "apply_replace"
    /\ file' = temp
    /\ replaces' = replaces + 1
    /\ IF InApplyEffects
       THEN /\ pc' = "fused_run"
            /\ temp' = FusedOutput(effects, file', FALSE)
            /\ encodes' = encodes + 1
            /\ log' = Append(log, EffectApplied)
       ELSE /\ pc' = "returned"
            /\ temp' = NoTemp
            /\ log' = Append(log, EffectApplied)
            /\ UNCHANGED encodes
    /\ UNCHANGED <<start_time, duration, subtitle_exists, subtitles, caller,
                   effects, err, fileBefore, subVars, fontVars>>

----------------------------------------------------------------------------
(* The fused encode of apply_effects *)

FusedRunOk ==
    /\ pc = "fused_run"
    /\ pc' = "fused_replace"
    /\ temp' = [temp EXCEPT !.complete = TRUE]
    /\ UNCHANGED <<start_time, duration, subtitle_exists, subtitles, file,
                   caller, effects, err, log, fileBefore, encodes, replaces,
                   subVars, fontVars>>

\* a handler that restores nothing but moves the unfinished output in place
FusedRunFail_replacing ==
    /\ pc = "fused_run"
    /\ pc' = "raised"
    /\ err' = "ffmpeg.Error"
    /\ file' = temp
    /\ log' = log \o <<ErrorApplyingEffects, FfmpegStdout, FfmpegStderr>>
              \o (IF caller = "effects_vid" THEN <<ErrorApplyingVid>> ELSE <<>>)
    /\ UNCHANGED <<start_time, duration, subtitle_exists, subtitles, temp,
                   caller, effects, fileBefore, encodes, replaces, subVars,
                   fontVars>>

\* except ffmpeg.Error: log the error, its stdout and its stderr, raise
FusedRunFail ==
    /\ pc = "fused_run"
    /\ pc' = "raised"
    /\ err' = "ffmpeg.Error"
    /\ log' = log \o <<ErrorApplyingEffects, FfmpegStdout, FfmpegStderr>>
              \o (IF caller = "effects_vid" THEN <<ErrorApplyingVid>> ELSE <<>>)
    /\ UNCHANGED <<start_time, duration, subtitle_exists, subtitles, file,
                   temp, caller, effects, fileBefore, encodes, replaces,
                   subVars, fontVars>>

\* os.replace of the fused output, then the success messages
FusedReplace ==
    /\ pc = "fused_replace"
    /\ file' = temp
    /\ temp' = NoTemp
    /\ replaces' = replaces + 1
    /\ pc' = "returned"
    /\ log' = Append(log, AllEffectsApplied)
              \o (IF caller = "effects_vid" THEN <<AppliedAllEffects>> ELSE <<>>)
    /\ UNCHANGED <<start_time, duration, subtitle_exists, subtitles, caller,
                   effects, err, fileBefore, encodes, subVars, fontVars>>

----------------------------------------------------------------------------
(* FontUtils: the process-wide default font *)

\* a file of fonts/static: its name, the first four characters of the name
\* and its extension, as written
FontFile(name, head, ext) == [name |-> name, head |-> head, ext |-> ext]

DirFiles ==
    { FontFile("NotoSans-Regular.ttf", "Noto", ".ttf"),
      FontFile("Arial.TTF", "Aria", ".TTF"),
      FontFile("MyNoto.otf", "MyNo", ".otf"),
      FontFile("README.md", "READ", ".md") }

\* str.lower on the pieces of the names above
lower ==
    "Noto" :> "noto" @@ "Aria" :> "aria" @@ "MyNo" :> "myno" @@
    "READ" :> "read" @@ ".ttf" :> ".ttf" @@ ".TTF" :> ".ttf" @@
    ".otf" :> ".otf" @@ ".md" :> ".md"

font_extensions == {".ttf", ".otf", ".woff", ".woff2", ".ttc"}

\* the states of fonts/static: missing, or present with some of the files
FontDirs ==
    { [exists |-> FALSE, files |-> {}] } \cup
    { [exists |-> TRUE, files |-> fs] : fs \in SUBSET DirFiles }

\* the directory of an installation that ships its fonts
InstalledFonts == [exists |-> TRUE, files |-> DirFiles]

\* FontUtils.find_all_fonts / all_fonts, for a directory that exists
find_all_fonts(dir) == { f \in dir.files : lower[f.ext] \in font_extensions }

\* base_name.lower().startswith("noto")
IsPreferred(f) == lower[f.head] = "noto"

\* a lookup that never trusts the cached font
Cached_never(cur) == FALSE

\* if FontUtils._CURRENT_FONT is not None
Cached(cur) == cur # "None"

NoRet == [kind |-> "none", font |-> "None", explicit |-> FALSE]

\* FontUtils.get_current_font, returning through font_ret with kind k
Resolve(k) ==
    IF Cached(CURRENT_FONT)
    THEN /\ font_ret' = [kind |-> k, font |-> CURRENT_FONT, explicit |-> FALSE]
         /\ UNCHANGED <<CURRENT_FONT, scans>>
    ELSE IF ~fonts_dir.exists
    THEN /\ font_ret' = [kind |-> "raised", font |-> "FileNotFoundError",
                         explicit |-> FALSE]
         /\ scans' = scans + 1
         /\ UNCHANGED CURRENT_FONT
    ELSE IF \E f \in find_all_fonts(fonts_dir) : IsPreferred(f)
    THEN \* the first preferred font in directory order, which is arbitrary
         \E f \in find_all_fonts(fonts_dir) :
             /\ IsPreferred(f)
             /\ CURRENT_FONT' = f.name
             /\ font_ret' = [kind |-> k, font |-> f.name, explicit |-> FALSE]
             /\ scans' = scans + 1
    ELSE IF find_all_fonts(fonts_dir) = {}
    THEN \* random.choice of an empty list
         /\ font_ret' = [kind |-> "raised", font |-> "IndexError",
                         explicit |-> FALSE]
         /\ scans' = scans + 2
         /\ UNCHANGED CURRENT_FONT
    ELSE \* random.choice
         \E f \in find_all_fonts(fonts_dir) :
             /\ CURRENT_FONT' = f.name
             /\ font_ret' = [kind |-> k, font |-> f.name, explicit |-> FALSE]
             /\ scans' = scans + 2

\* FontUtils.get_current_font()
GetCurrentFont ==
    /\ font_calls < MaxFontCalls
    /\ font_calls' = font_calls + 1
    /\ Resolve("font")
    /\ UNCHANGED <<fonts_dir, pipeVars, subVars>>

\* FontUtils.get_font_dimensions(font_size, text): the default font
GetFontDimensions ==
    /\ font_calls < MaxFontCalls
    /\ font_calls' = font_calls + 1
    /\ Resolve("dimensions")
    /\ UNCHANGED <<fonts_dir, pipeVars, subVars>>

\* FontUtils.get_font_dimensions(font_size, text, font_path)
GetFontDimensionsOf ==
    /\ font_calls < MaxFontCalls
    /\ font_calls' = font_calls + 1
    /\ \E f \in DirFiles :
           font_ret' = [kind |-> "dimensions", font |-> f.name,
                        explicit |-> TRUE]
    /\ UNCHANGED <<CURRENT_FONT, scans, fonts_dir, pipeVars, subVars>>

\* files are added to or removed from fonts/static, or the directory is
\* created or deleted, while the process runs
ChangeFontsDir ==
    /\ \E d \in FontDirs : d # fonts_dir /\ fonts_dir' = d
    /\ UNCHANGED <<CURRENT_FONT, font_ret, font_calls, scans, pipeVars,
                   subVars>>

----------------------------------------------------------------------------
(* The pipeline: one call of apply_effects, effects_vid or Effect.apply on *)
(* a media file                                                            *)

Init ==
    /\ start_time \in StartTimes
    /\ duration \in Durations
    /\ subtitle_exists = TRUE
    /\ subtitles = <<>>
    /\ file \in { Content(<<>>, a, "none", TRUE) : a \in AudioCodecs }
    /\ temp = NoTemp
    /\ pc = "idle"
    /\ caller = "none"
    /\ effects = <<>>
    /\ err = "none"
    /\ log = <<>>
    /\ fileBefore = file
    /\ encodes = 0
    /\ replaces = 0
    /\ idx = 1
    /\ overlay_spots = <<>>
    /\ subtitle_props = <<>>
    /\ placed = <<>>
    /\ CURRENT_FONT = "None"
    /\ fonts_dir = InstalledFonts
    /\ font_ret = NoRet
    /\ font_calls = 0
    /\ scans = 0

Next ==
    \/ ApplyEffects
    \/ EffectsVid
    \/ Apply
    \/ RunOk
    \/ RunFail
    \/ Replace
    \/ FusedRunOk
    \/ FusedRunFail
    \/ FusedReplace

Spec == Init /\ [][Next]_vars

----------------------------------------------------------------------------
(* EditorEffects.add_subtitles *)

\* a cue of the subtitle file: absolute start and end, start <= end
ValidCues ==
    { c \in [start : 0..MaxTime, end : 0..MaxTime] : c.start <= c.end }

\* start_time = subtitle.start.total_seconds() - self.start_time
CueStart(i) == subtitles[i].start - start_time

\* end_time = subtitle.end.total_seconds() - self.start_time
CueEnd(i) == subtitles[i].end - start_time

\* a range check that filters late cues instead of ending the loop
CueVerdict_filtering(s, e) ==
    IF e < 0 \/ s > duration THEN "continue" ELSE "place"

\* if end_time < 0: continue / if start_time > self.duration: break
CueVerdict(s, e) ==
    IF e < 0 THEN "continue"
    ELSE IF s > duration THEN "break"
    ELSE "place"

\* a slot test with the comparison turned around
SlotFree_reversed(spots, off, s) ==
    off \notin DOMAIN spots \/ s <= spots[off]

\* the two breaks of the while True loop: the offset is unused, or the cue
\* last placed there has ended (start_time >= end_last)
SlotFree(spots, off, s) ==
    off \notin DOMAIN spots \/ s >= spots[off]

\* current_offset = INIT_OFFSET; while True: ... current_offset += FONT_SIZE
RECURSIVE ScanOffset(_, _, _)
ScanOffset(spots, off, s) ==
    IF SlotFree(spots, off, s) THEN off
    ELSE ScanOffset(spots, off + FONT_SIZE, s)

\* overlay_spots[current_offset] = end_time
Record(spots, off, e) ==
    [o \in DOMAIN spots \cup {off} |-> IF o = off THEN e ELSE spots[o]]

\* a conversion that rounds the length up to whole seconds
IntSeconds_ceil(d) == ((d + TicksPerSec - 1) \div TicksPerSec) * TicksPerSec

\* int(end_time - start_time), a whole number of seconds, in ticks
IntSeconds(d) == (d \div TicksPerSec) * TicksPerSec

\* the TextOverlayProperties built for a cue placed at current_offset
SubtitleProp(s, e, off) ==
    TextOverlayProperties(s, IntSeconds(e - s),
        off + ((off - INIT_OFFSET) \div FONT_SIZE) * LINE_GAP)

\* an entry that opens the subtitle file without looking for it first
AddSubtitles_unchecked ==
    /\ pc = "idle"
    /\ caller' = "add_subtitles"
    /\ fileBefore' = file
    /\ IF ~subtitle_exists
       THEN /\ pc' = "raised"
            /\ err' = "FileNotFoundError"
       ELSE /\ pc' = "cue_loop"
            /\ UNCHANGED err
    /\ idx' = 1
    /\ overlay_spots' = <<>>
    /\ subtitle_props' = <<>>
    /\ placed' = <<>>
    /\ UNCHANGED <<start_time, duration, subtitle_exists, subtitles, file,
                   temp, effects, log, encodes, replaces, fontVars>>

\* entry of add_subtitles up to the cue loop
AddSubtitles ==
    /\ pc = "idle"
    /\ caller' = "add_subtitles"
    /\ fileBefore' = file
    /\ IF ~subtitle_exists
       THEN /\ pc' = "returned"
            /\ log' = Append(log, SubtitleMissing)
       ELSE /\ pc' = "cue_loop"
            /\ UNCHANGED log
    /\ idx' = 1
    /\ overlay_spots' = <<>>
    /\ subtitle_props' = <<>>
    /\ placed' = <<>>
    /\ UNCHANGED <<start_time, duration, subtitle_exists, subtitles, file,
                   temp, effects, err, encodes, replaces, fontVars>>

\* one iteration of: for subtitle in subtitles
NextCue ==
    /\ pc = "cue_loop"
    /\ idx <= Len(subtitles)
    /\ LET s == CueStart(idx)
           e == CueEnd(idx)
           verdict == CueVerdict(s, e)
           off == ScanOffset(overlay_spots, INIT_OFFSET, s)
       IN  /\ pc' = IF verdict = "break" THEN "cue_done" ELSE "cue_loop"
           /\ idx' = IF verdict = "break" THEN idx ELSE idx + 1
           /\ IF verdict = "place"
              THEN /\ overlay_spots' = Record(overlay_spots, off, e)
                   /\ subtitle_props' = Append(subtitle_props, SubtitleProp(s, e, off))
                   /\ placed' = Append(placed, idx)
              ELSE UNCHANGED <<overlay_spots, subtitle_props, placed>>
    /\ UNCHANGED <<start_time, duration, subtitle_exists, subtitles, file,
                   temp, caller, effects, err, log, fileBefore, encodes,
                   replaces, fontVars>>

LoopOver == pc = "cue_done" \/ (pc = "cue_loop" /\ idx > Len(subtitles))

\* TextOverlayEffect(texts=subtitle_props).apply(self.file_path), up to the
\* point where its encode is running
SubtitleApply ==
    /\ LoopOver
    /\ effects' = <<TextOverlayEffect(subtitle_props)>>
    /\ pc' = "apply_run"
    /\ log' = Append(log, ApplyingEffect)
    /\ temp' = ApplyOutput(effects'[1], file, FALSE)
    /\ encodes' = encodes + 1
    /\ UNCHANGED <<start_time, duration, subtitle_exists, subtitles, file,
                   caller, err, fileBefore, replaces, subVars, fontVars>>

SubInit ==
    /\ start_time \in StartTimes
    /\ duration \in Durations
    /\ subtitle_exists \in BOOLEAN
    /\ subtitles \in IF subtitle_exists THEN SeqsUpTo(ValidCues, MaxCues)
                     ELSE {<<>>}
    /\ file \in { Content(<<>>, a, "none", TRUE) : a \in AudioCodecs }
    /\ temp = NoTemp
    /\ pc = "idle"
    /\ caller = "none"
    /\ effects = <<>>
    /\ err = "none"
    /\ log = <<>>
    /\ fileBefore = file
    /\ encodes = 0
    /\ replaces = 0
    /\ idx = 1
    /\ overlay_spots = <<>>
    /\ subtitle_props = <<>>
    /\ placed = <<>>
    /\ CURRENT_FONT = "None"
    /\ fonts_dir = InstalledFonts
    /\ font_ret = NoRet
    /\ font_calls = 0
    /\ scans = 0

SubNext ==
    \/ AddSubtitles
    \/ NextCue
    \/ SubtitleApply
    \/ RunOk
    \/ RunFail
    \/ Replace

SubSpec == SubInit /\ [][SubNext]_vars

----------------------------------------------------------------------------
(* The font cache over a process lifetime: calls of FontUtils while the    *)
(* font directory changes                                                   *)

FontInit ==
    /\ start_time = 0
    /\ duration = 0
    /\ subtitle_exists = TRUE
    /\ subtitles = <<>>
    /\ file = Content(<<>>, "aac", "none", TRUE)
    /\ temp = NoTemp
    /\ pc = "idle"
    /\ caller = "none"
    /\ effects = <<>>
    /\ err = "none"
    /\ log = <<>>
    /\ fileBefore = file
    /\ encodes = 0
    /\ replaces = 0
    /\ idx = 1
    /\ overlay_spots = <<>>
    /\ subtitle_props = <<>>
    /\ placed = <<>>
    /\ CURRENT_FONT = "None"
    /\ fonts_dir \in FontDirs
    /\ font_ret = NoRet
    /\ font_calls = 0
    /\ scans = 0

FontNext ==
    \/ GetCurrentFont
    \/ GetFontDimensions
    \/ GetFontDimensionsOf
    \/ ChangeFontsDir

FontSpec == FontInit /\ [][FontNext]_vars

----------------------------------------------------------------------------
(* Properties of apply_effects and of the encode steps *)

OneTrim == caller = "apply_effects" /\ CountTrims(effects) = 1

TrimIndex(effs) == CHOOSE i \in DOMAIN effs : IsTrim(effs[i])

TrimStagesIn(video) == { k \in DOMAIN video : video[k].kind = "trim" }

EncodeFailed == InApplyEffects /\ pc = "raised" /\ err = "ffmpeg.Error"

\* C1: a list with two or more TrimEffects makes apply_effects raise, and
\* nothing happens to the file: no effect's apply runs, no encode is started,
\* the file is never replaced.
C1_MultipleTrimsRejected ==
    (caller = "apply_effects" /\ CountTrims(effects) >= 2) =>
        /\ pc = "raised"
        /\ err = "ValueError"
        /\ encodes = 0
        /\ replaces = 0
        /\ file = fileBefore
        /\ ApplyingEffect \notin { log[k] : k \in DOMAIN log }

C1_Witness ==
    /\ caller = "apply_effects"
    /\ pc = "raised"
    /\ err = "ValueError"
    /\ Len(effects) = 3
    /\ CountTrims(effects) = 2
    /\ ~IsTrim(effects[1])

\* C2: a non-empty list without a TrimEffect runs as a single fused batch:
\* when the call has returned, one encode and one replacement have happened
\* and the file holds each effect's contribution exactly once, in list order.
C2_SingleFusedBatch ==
    (caller = "apply_effects" /\ pc = "returned" /\ effects # <<>>
        /\ CountTrims(effects) = 0) =>
        /\ encodes = 1
        /\ replaces = 1
        /\ file.video = FusedGraph(fileBefore.video, effects)

\* C3 as stated: with exactly one TrimEffect at any position i the call is
\* not refused for the Trim's position, and when it has returned the file
\* holds the fused pre-trim batch, then the Trim, then the fused post-trim
\* batch.
C3_SplitAtTrim ==
    OneTrim =>
        LET i == TrimIndex(effects)
            pre == SubSeq(effects, 1, i - 1)
            post == SubSeq(effects, i + 1, Len(effects))
        IN  /\ err # "AssertionError"
            /\ pc = "returned" =>
                   file.video =
                       FusedGraph(Append(FusedGraph(fileBefore.video, pre),
                                         TrimStage(effects[i])), post)

\* C3 amended: with exactly one TrimEffect, a Trim that is not the first
\* effect makes the call raise AssertionError before anything is applied;
\* a Trim at position 0 is applied standalone and its replacement is done
\* before the effects after it are encoded as one fused batch.
C3_TrimFirstThenFused ==
    OneTrim =>
        IF ~IsTrim(effects[1])
        THEN /\ pc = "raised"
             /\ err = "AssertionError"
             /\ encodes = 0
             /\ replaces = 0
             /\ file = fileBefore
        ELSE LET trimmed == Append(fileBefore.video, TrimStage(effects[1]))
                 fused == FusedGraph(trimmed, Tail(effects))
             IN  /\ pc \in {"apply_run", "apply_replace"} =>
                        /\ file = fileBefore
                        /\ temp.video = trimmed
                        /\ encodes = 1 /\ replaces = 0
                 /\ pc \in {"fused_run", "fused_replace"} =>
                        /\ file.video = trimmed /\ file.complete
                        /\ temp.video = fused
                        /\ encodes = 2 /\ replaces = 1
                 /\ pc = "returned" =>
                        /\ file.video = fused /\ file.complete
                        /\ encodes = 2 /\ replaces = 2
                 /\ pc = "raised" => err = "ffmpeg.Error"

C3_Witness ==
    /\ OneTrim
    /\ pc = "returned"
    /\ Len(effects) = 3
    /\ IsTrim(effects[1])
    /\ Len(file.video) = 3

\* C4: when apply_effects accepts a list with exactly one TrimEffect, the
\* Trim's own encode-and-replace is complete before the fused encode starts,
\* the fused graph holds no trim stage, and the file ends up trimmed once.
C4_TrimStandalone ==
    (OneTrim /\ IsTrim(effects[1])) =>
        LET n == Len(fileBefore.video)
            t == TrimStage(effects[1])
        IN  /\ pc \in {"fused_run", "fused_replace", "returned"} =>
                   /\ replaces >= 1
                   /\ Len(file.video) > n
                   /\ file.video[n + 1] = t
            /\ pc \in {"fused_run", "fused_replace"} =>
                   /\ replaces = 1
                   /\ TrimStagesIn(temp.video) = {n + 1}
            /\ pc = "returned" => TrimStagesIn(file.video) = {n + 1}

C4_Witness ==
    /\ OneTrim
    /\ IsTrim(effects[1])
    /\ pc = "fused_replace"
    /\ Len(effects) >= 2
    /\ Len(temp.video) >= 2

\* C5: in every step the media file stays a complete version: it changes
\* only by the replacement that follows a successfully returned encode, and
\* then it becomes that encode's complete output.
C5_AtomicReplace ==
    [][ /\ file.complete /\ file'.complete
        /\ file' # file =>
               /\ pc \in {"apply_replace", "fused_replace"}
               /\ temp.complete
               /\ file' = temp ]_vars

C5_Witness ==
    /\ pc = "raised"
    /\ err = "ffmpeg.Error"
    /\ ~temp.complete
    /\ temp.video # <<>>
    /\ file.complete
    /\ replaces = 1

\* C6 as stated: when apply_effects ends with an encode error the media
\* file holds what it held before the call.
C6_FailureLeavesOriginal == EncodeFailed => file = fileBefore

\* C6 amended: when apply_effects ends with an encode error the media file
\* holds what it held before the failing encode step: the content from
\* before the call if effects[0].apply failed, the complete output of
\* effects[0].apply if the fused encode failed.
C6_FailureKeepsLastStep ==
    EncodeFailed =>
        /\ encodes \in {1, 2}
        /\ encodes = 1 => (file = fileBefore /\ replaces = 0)
        /\ encodes = 2 =>
               (file = ApplyOutput(effects[1], fileBefore, TRUE) /\ replaces = 1)

C6_Witness ==
    /\ EncodeFailed
    /\ encodes = 2
    /\ file # fileBefore
    /\ IsTrim(effects[1])

\* C7: after any encode failure in apply_effects the tool's standard output
\* and standard error have both been logged and the call has raised.
C7_DiagnosticsLogged ==
    (InApplyEffects /\ err = "ffmpeg.Error") =>
        /\ pc = "raised"
        /\ FfmpegStdout \in { log[k] : k \in DOMAIN log }
        /\ FfmpegStderr \in { log[k] : k \in DOMAIN log }

\* C10: applying a TrimEffect with end_time <= start_time, directly or
\* through apply_effects, raises before any encode is started and leaves
\* the media file unchanged.
C10_InvalidRangeRejected ==
    (caller \in {"apply", "apply_effects", "effects_vid"} /\ effects # <<>>
        /\ \E i \in DOMAIN effects :
               IsTrim(effects[i]) /\ effects[i].end_time <= effects[i].start_time) =>
        /\ pc = "raised"
        /\ encodes = 0
        /\ file = fileBefore

\* opacity in [0, 1], in tenths
OpacityInRange(op) == op >= 0 /\ op <= 10

\* C11: a FillOverlayEffect whose opacity is outside [0, 1] is rejected
\* before any encode work: whenever such an effect is in the list of a call,
\* the call has raised, no encode was started and the file was not replaced.
C11_OpacityRejected ==
    (caller \in {"apply", "apply_effects", "effects_vid"}
        /\ \E i \in DOMAIN effects :
               /\ effects[i].kind = "FillOverlayEffect"
               /\ ~OpacityInRange(effects[i].opacity)) =>
        /\ pc = "raised"
        /\ encodes = 0
        /\ replaces = 0
        /\ file = fileBefore

Misordered == OneTrim /\ ~IsTrim(effects[1])

NothingApplied ==
    /\ encodes = 0
    /\ replaces = 0
    /\ file = fileBefore
    /\ temp = NoTemp
    /\ ApplyingEffect \notin { log[k] : k \in DOMAIN log }

\* C13: with exactly one TrimEffect that is not at index 0, a call that
\* returns has applied the Trim at its position in the list, and a call that
\* is refused has raised with nothing applied and the file untouched.
C13_NoSilentReorder ==
    Misordered =>
        LET i == TrimIndex(effects)
            honoured ==
                FusedGraph(Append(FusedGraph(fileBefore.video,
                                             SubSeq(effects, 1, i - 1)),
                                  TrimStage(effects[i])),
                           SubSeq(effects, i + 1, Len(effects)))
        IN  /\ pc = "returned" => file.video = honoured
            /\ (pc = "raised" /\ err # "ffmpeg.Error") => NothingApplied

C13_Witness ==
    /\ Misordered
    /\ pc = "raised"
    /\ err = "AssertionError"
    /\ Len(effects) = 3
    /\ IsTrim(effects[2])
    /\ NothingApplied

\* C15: every encode pass copies the audio exactly when the codec probed
\* from the file it reads is aac and transcodes to aac otherwise; after a
\* pass has replaced the file its audio is aac, so the second pass of a call
\* copies: the audio is transcoded at most once, in the first pass.
C15_AudioPolicy ==
    /\ pc \in {"apply_run", "apply_replace", "fused_run", "fused_replace"} =>
           /\ temp.acodec \in {"copy", "aac"}
           /\ temp.acodec = "copy" <=> file.audio = "aac"
           /\ temp.audio = "aac"
    /\ replaces >= 1 => file.audio = "aac"
    /\ pc \in {"fused_run", "fused_replace"} => temp.acodec = "copy"
    /\ replaces = 2 => file.acodec = "copy"

C15_Witness ==
    /\ pc = "returned"
    /\ replaces = 2
    /\ fileBefore.audio = "opus"
    /\ file.acodec = "copy"
    /\ file.audio = "aac"

----------------------------------------------------------------------------
(* Properties of add_subtitles *)

\* the cue loop of add_subtitles has ended
CuesProcessed ==
    /\ caller = "add_subtitles"
    /\ subtitle_exists
    /\ \/ LoopOver
       \/ pc \in {"apply_run", "apply_replace", "returned", "raised"}

Late(i) == CueStart(i) > duration

\* index of the first cue that starts after duration, Len + 1 if none does
FirstLate ==
    IF \E i \in DOMAIN subtitles : Late(i)
    THEN CHOOSE i \in DOMAIN subtitles :
             Late(i) /\ \A j \in 1..(i - 1) : ~Late(j)
    ELSE Len(subtitles) + 1

Overlap(i, j) == CueStart(i) < CueEnd(j) /\ CueStart(j) < CueEnd(i)

\* C8: two emitted entries with the same vertical offset never overlap: the
\* one placed later starts at or after the end of every cue placed earlier
\* at that offset; so cues whose windows overlap get different offsets.
C8_SameOffsetDisjoint ==
    (caller = "add_subtitles") =>
        \A j, k \in DOMAIN subtitle_props :
            j < k =>
                /\ subtitle_props[j].offset = subtitle_props[k].offset =>
                       CueStart(placed[k]) >= CueEnd(placed[j])
                /\ Overlap(placed[j], placed[k]) =>
                       subtitle_props[j].offset # subtitle_props[k].offset

C8_Witness ==
    /\ caller = "add_subtitles"
    /\ pc = "returned"
    /\ Len(subtitle_props) = 3
    /\ subtitle_props[1].offset = subtitle_props[2].offset
    /\ subtitle_props[3].offset # subtitle_props[1].offset
    /\ Overlap(placed[1], placed[3])
    /\ CueStart(placed[3]) < CueStart(placed[2])

\* C9 (cues with start <= end, duration >= 0): once the cue loop has ended,
\* the emitted entries are exactly the cues
\* before the first cue that starts after duration, without those that end
\* before 0, in cue order; no cue after that first late cue is emitted.
C9_EarlyExit ==
    CuesProcessed =>
        /\ Len(subtitle_props) = Len(placed)
        /\ { placed[k] : k \in DOMAIN placed } =
               { i \in 1..(FirstLate - 1) : CueEnd(i) >= 0 }
        /\ \A j, k \in DOMAIN placed : j < k => placed[j] < placed[k]
        /\ pc \in {"apply_run", "apply_replace", "returned", "raised"} =>
               effects = <<TextOverlayEffect(subtitle_props)>>

C9_Witness ==
    /\ CuesProcessed
    /\ pc = "returned"
    /\ Len(subtitles) = 3
    /\ FirstLate = 2
    /\ Len(subtitle_props) = 1
    /\ CueStart(3) >= 0
    /\ CueEnd(3) <= duration

\* C12: when the subtitle file does not exist, add_subtitles logs the
\* problem and returns without raising; no encode is started and the media
\* file is unchanged.
C12_MissingSubtitleSkipped ==
    (caller = "add_subtitles" /\ ~subtitle_exists) =>
        /\ pc = "returned"
        /\ err = "none"
        /\ log = <<SubtitleMissing>>
        /\ encodes = 0
        /\ replaces = 0
        /\ temp = NoTemp
        /\ file = fileBefore
        /\ subtitle_props = <<>>

C12_Witness ==
    /\ caller = "add_subtitles"
    /\ ~subtitle_exists
    /\ pc = "returned"
    /\ SubtitleMissing \in { log[k] : k \in DOMAIN log }
    /\ file.audio = "opus"

\* C14 as stated: every emitted entry carries start_time = translated cue
\* start and duration = cue end - cue start, so start_time + duration is the
\* translated end_time.
C14_WindowExact ==
    \A k \in DOMAIN subtitle_props :
        /\ subtitle_props[k].start_time = CueStart(placed[k])
        /\ subtitle_props[k].duration = CueEnd(placed[k]) - CueStart(placed[k])
        /\ subtitle_props[k].start_time + subtitle_props[k].duration =
               CueEnd(placed[k])

\* C14 amended: every emitted entry carries start_time = translated cue
\* start and duration = the cue length cut down to whole seconds: start_time
\* + duration is at most the translated end_time, less than one second
\* before it, and equal to it exactly when the length is a whole number of
\* seconds.
C14_WindowTruncated ==
    \A k \in DOMAIN subtitle_props :
        LET p == subtitle_props[k]
            length == CueEnd(placed[k]) - CueStart(placed[k])
        IN  /\ p.start_time = CueStart(placed[k])
            /\ p.duration % TicksPerSec = 0
            /\ p.duration <= length
            /\ length < p.duration + TicksPerSec
            /\ p.start_time + p.duration <= CueEnd(placed[k])
            /\ (p.start_time + p.duration = CueEnd(placed[k]))
                   <=> (length % TicksPerSec = 0)

C14_Witness ==
    /\ caller = "add_subtitles"
    /\ pc = "returned"
    /\ Len(subtitle_props) = 2
    /\ subtitle_props[1].start_time + subtitle_props[1].duration
           < CueEnd(placed[1])
    /\ subtitle_props[1].duration > 0
    /\ subtitle_props[2].start_time + subtitle_props[2].duration
           = CueEnd(placed[2])
    /\ subtitle_props[2].start_time < 0

\* C18: two overlays drawn at the same vertical offset are never enabled at
\* the same instant: their gates between(t, from, to), closed at both ends,
\* do not meet.
C18_RowNeverDoubled ==
    LET stages == DrawText(<<>>, subtitle_props)
    IN  \A j, k \in DOMAIN stages :
            (j < k /\ stages[j].y = stages[k].y) =>
                \/ stages[j].to < stages[k].from
                \/ stages[k].to < stages[j].from

----------------------------------------------------------------------------
(* Properties of FontUtils *)

DefaultFontCall == font_calls' # font_calls /\ ~font_ret'.explicit

\* C16: once the cached default font is set it never changes, and every
\* later get_current_font or get_font_dimensions call without an explicit
\* font returns or uses it without scanning the font directory again.
C16_FontResolvedOnce ==
    [][ CURRENT_FONT # "None" =>
            /\ CURRENT_FONT' = CURRENT_FONT
            /\ scans' = scans
            /\ DefaultFontCall =>
                   /\ font_ret'.kind \in {"font", "dimensions"}
                   /\ font_ret'.font = CURRENT_FONT ]_vars

C16_Witness ==
    /\ CURRENT_FONT # "None"
    /\ font_calls = 3
    /\ font_ret = [kind |-> "dimensions", font |-> CURRENT_FONT,
                   explicit |-> FALSE]
    /\ fonts_dir.exists
    /\ find_all_fonts(fonts_dir) # {}
    /\ CURRENT_FONT \notin { f.name : f \in fonts_dir.files }

\* the names that contain the preferred-family string, in any case
ContainsPreferred == {"NotoSans-Regular.ttf", "MyNoto.otf"}

\* C17: resolving the default font never fails: it yields a font whose name
\* contains the preferred-family string when the directory has one,
\* otherwise some available font, and a built-in default when the directory
\* is empty or missing.
C17_FontNeverFails ==
    [][ (DefaultFontCall /\ CURRENT_FONT = "None") =>
            LET available ==
                    IF fonts_dir.exists THEN find_all_fonts(fonts_dir) ELSE {}
                names == { f.name : f \in available }
            IN  /\ font_ret'.kind # "raised"
                /\ names \cap ContainsPreferred # {} =>
                       font_ret'.font \in names \cap ContainsPreferred
                /\ (names # {} /\ names \cap ContainsPreferred = {}) =>
                       font_ret'.font \in names ]_vars

====
